---- MODULE Spec2Model ----
(***************************************************************************)
(* Scripture retention schedule (src/src/main.rs).                         *)
(*                                                                         *)
(* Dates are day numbers; day 0 is a Sunday.  A reference string is        *)
(* represented by a natural number (distinct numbers = distinct strings).  *)
(* Rust vectors are sequences; the 0-based slice vec[a..b] is              *)
(* SubSeq(vec, a + 1, b).                                                  *)
(***************************************************************************)
EXTENDS Integers, Sequences, FiniteSets

VARIABLES
    pc,      \* position of the running computation
    entry,   \* EntrySpec: a VerseEntry {date, reference}
    today,   \* EntrySpec: the reference date
    verse,   \* EntrySpec: the Verse {weeks_in, reference} derived from entry
    freq,    \* EntrySpec: the Frequency last computed for verse
    added,   \* EntrySpec: number of add_offset(1) calls applied to verse
    list,    \* Spec: the VerseList {today, references}
    verses,  \* Spec: list.relative_verses()
    month,   \* Spec: VersesForAMonth::new(&verses)
    offset,  \* Spec: the cycle-week computed by current_week_offset
    bucket,  \* Spec: the VersesForADay returned by for_date
    split    \* SplitSpec: the locals of split_into_n_parts

vars == <<pc, entry, today, verse, freq, added, list, verses, month, offset, bucket, split>>

----------------------------------------------------------------------------
(* Program constants *)

\* 7 days in a week: the n of both split_into_n_parts calls
DaysPerWeek == 7

\* weeks of daily review
DailyWeeks == 7

\* weeks of weekly review
WeeklyWeeks == 28

\* weeks of monthly review
MonthlyWeeks == 336

\* the month is 4 weeks: residues of weeks_in % 4
WeeksPerMonth == 4

\* last week offset of (0..=3)
LastWeek == 3

(* Bounds of the model *)

\* EntrySpec: the reference date is at most this many days before the entry
BeforeDays == 70

\* EntrySpec: the reference date is at most this many days after the entry
AfterDays == 2610

\* EntrySpec: add_offset(1) is applied at most this many times
MaxAdded == 3

\* Spec: longest list of references
MaxVerses == 9

\* SplitSpec: longest vector
MaxLen == 9

\* SplitSpec: largest number of parts
MaxParts == 8

----------------------------------------------------------------------------
(* Rust integer arithmetic: / truncates toward zero, % takes the sign of  *)
(* the dividend.                                                          *)

RustDiv(a, b) ==
    IF a >= 0 THEN a \div b ELSE -((-a) \div b)

RustRem(a, b) ==
    a - b * RustDiv(a, b)

\* chrono TimeDelta::num_weeks of a difference of two dates, given in days:
\* num_days() / 7
num_weeks(days) ==
    RustDiv(days, 7)

----------------------------------------------------------------------------
(* split_into_n_parts *)

\* the locals after `let mut start = 0;`
SplitEnter(v, parts) ==
    [vec |-> v, n |-> parts, len |-> Len(v), base |-> Len(v) \div parts,
     remainder |-> Len(v) % parts, result |-> <<>>, start |-> 0, i |-> 0]

\* variant of SplitMore: the loop also stops once the input is used up
SplitMoreUntilEmpty(st) ==
    st.i < st.n /\ st.start < st.len

\* `for i in 0..n`: is there another iteration
SplitMore(st) ==
    st.i < st.n

\* variant of SplitExtra: the extra items go to the last groups
SplitExtraLast(st) ==
    IF st.i >= st.n - st.remainder THEN 1 ELSE 0

\* variant of SplitExtra: one group too many gets an extra item
SplitExtraInclusive(st) ==
    IF st.i <= st.remainder THEN 1 ELSE 0

\* `let extra = if i < remainder { 1 } else { 0 };`
SplitExtra(st) ==
    IF st.i < st.remainder THEN 1 ELSE 0

\* `let end = start + base + extra;`
SplitEnd(st) ==
    st.start + st.base + SplitExtra(st)

\* variant of SplitBody: start advances by base only
SplitBodyNoExtra(st) ==
    [st EXCEPT !.result = Append(st.result, SubSeq(st.vec, st.start + 1, SplitEnd(st))),
               !.start = st.start + st.base,
               !.i = st.i + 1]

\* variant of SplitBody: the slice is taken but start is not moved past it
SplitBodyStale(st) ==
    [st EXCEPT !.result = Append(st.result, SubSeq(st.vec, st.start + 1, SplitEnd(st))),
               !.start = IF st.start + 1 < SplitEnd(st) THEN SplitEnd(st) - 1 ELSE st.start,
               !.i = st.i + 1]

\* one iteration of the loop body: push vec[start..end], then start = end
SplitBody(st) ==
    [st EXCEPT !.result = Append(st.result, SubSeq(st.vec, st.start + 1, SplitEnd(st))),
               !.start = SplitEnd(st),
               !.i = st.i + 1]

RECURSIVE SplitLoop(_)
SplitLoop(st) ==
    IF SplitMore(st) THEN SplitLoop(SplitBody(st)) ELSE st

\* n >= 1: with n = 0 the division len / n panics
split_into_n_parts(v, parts) ==
    SplitLoop(SplitEnter(v, parts)).result

\* does an iteration take a slice vec[start..end] with end > len (a panic)
RECURSIVE SplitLoopPanics(_)
SplitLoopPanics(st) ==
    IF ~SplitMore(st) THEN FALSE
    ELSE IF SplitEnd(st) > st.len THEN TRUE
    ELSE SplitLoopPanics(SplitBody(st))

\* does the call panic: len / n with n = 0, or a slice out of range
SplitPanics(v, parts) ==
    parts = 0 \/ SplitLoopPanics(SplitEnter(v, parts))

----------------------------------------------------------------------------
(* VerseEntry, VerseList, Verse, Frequency *)

\* variant of weeks_in: the difference is taken the other way round
weeks_in_reversed(e, day) ==
    num_weeks(e.date - day)

weeks_in(e, day) ==
    num_weeks(day - e.date)

calculate_relative(e, day) ==
    [weeks_in |-> weeks_in(e, day), reference |-> e.reference]

relative_verses(l) ==
    [k \in 1..Len(l.references) |-> calculate_relative(l.references[k], l.today)]

\* variant of FrequencyNew: the daily bound is inclusive
FrequencyNewInclusive(w) ==
    IF w < 0 THEN "NotStarted"
    ELSE IF w <= DailyWeeks THEN "Daily"
    ELSE IF w < DailyWeeks + WeeklyWeeks THEN "Weekly"
    ELSE IF w < DailyWeeks + WeeklyWeeks + MonthlyWeeks THEN "Monthly"
    ELSE "Done"

\* variant of FrequencyNew: the bounds are not cumulative
FrequencyNewNotCumulative(w) ==
    IF w < 0 THEN "NotStarted"
    ELSE IF w < DailyWeeks THEN "Daily"
    ELSE IF w < WeeklyWeeks THEN "Weekly"
    ELSE IF w < MonthlyWeeks THEN "Monthly"
    ELSE "Done"

\* variant of FrequencyNew: the weekly bound is tested before the daily one
FrequencyNewWeeklyFirst(w) ==
    IF w < 0 THEN "NotStarted"
    ELSE IF w < DailyWeeks + WeeklyWeeks THEN "Weekly"
    ELSE IF w < DailyWeeks THEN "Daily"
    ELSE IF w < DailyWeeks + WeeklyWeeks + MonthlyWeeks THEN "Monthly"
    ELSE "Done"

\* variant of FrequencyNew: there is no NotStarted tier
FrequencyNewNoNotStarted(w) ==
    IF w < DailyWeeks THEN "Daily"
    ELSE IF w < DailyWeeks + WeeklyWeeks THEN "Weekly"
    ELSE IF w < DailyWeeks + WeeklyWeeks + MonthlyWeeks THEN "Monthly"
    ELSE "Done"

FrequencyNew(w) ==
    IF w < 0 THEN "NotStarted"
    ELSE IF w < DailyWeeks THEN "Daily"
    ELSE IF w < DailyWeeks + WeeklyWeeks THEN "Weekly"
    ELSE IF w < DailyWeeks + WeeklyWeeks + MonthlyWeeks THEN "Monthly"
    ELSE "Done"

frequency(v) ==
    FrequencyNew(v.weeks_in)

with_offset(v, weeks) ==
    [v EXCEPT !.weeks_in = v.weeks_in + weeks]

is_daily(v) ==
    frequency(v) = "Daily"

\* variant of is_weekly: no upper bound on the age
is_weekly_unbounded(v) ==
    v.weeks_in >= DailyWeeks

is_weekly(v) ==
    frequency(v) = "Weekly"

\* variant of is_monthly_week: the residue of is_monthly_this_week
is_monthly_week_one(v, k) ==
    LET is_monthly == frequency(v) = "Monthly"
        is_monthly_this_week == RustRem(v.weeks_in, WeeksPerMonth) = 1
    IN  is_monthly /\ is_monthly_this_week

\* variant of is_monthly_week: the residue alone, whatever the tier
is_monthly_week_any_tier(v, k) ==
    RustRem(v.weeks_in, WeeksPerMonth) = k

is_monthly_week(v, k) ==
    LET is_monthly == frequency(v) = "Monthly"
        is_monthly_this_week == RustRem(v.weeks_in, WeeksPerMonth) = k
    IN  is_monthly /\ is_monthly_this_week

----------------------------------------------------------------------------
(* VersesForAWeek, VersesForAMonth *)

\* variant of ZipDays: the daily verses are spread over the days too
ZipDaysSplitDaily(daily, weekly, monthly) ==
    LET m == IF Len(weekly) < Len(monthly) THEN Len(weekly) ELSE Len(monthly)
    IN  [d \in 1..m |-> [daily |-> split_into_n_parts(daily, DaysPerWeek)[d],
                         weekly |-> weekly[d], monthly |-> monthly[d]]]

\* variant of ZipDays: the weekly groups are taken from the last to the first
ZipDaysReversed(daily, weekly, monthly) ==
    LET m == IF Len(weekly) < Len(monthly) THEN Len(weekly) ELSE Len(monthly)
    IN  [d \in 1..m |-> [daily |-> daily, weekly |-> weekly[Len(weekly) + 1 - d],
                         monthly |-> monthly[d]]]

\* weekly.into_iter().zip(monthly).map(..): one VersesForADay per pair
ZipDays(daily, weekly, monthly) ==
    LET m == IF Len(weekly) < Len(monthly) THEN Len(weekly) ELSE Len(monthly)
    IN  [d \in 1..m |-> [daily |-> daily, weekly |-> weekly[d], monthly |-> monthly[d]]]

\* variant of VersesForAWeekNew: only the k-th quarter of the monthly verses
\* is spread over the days
VersesForAWeekNewQuarter(vs, k) ==
    LET daily == SelectSeq(vs, is_daily)
        weekly == SelectSeq(vs, is_weekly)
        monthly == SelectSeq(vs, LAMBDA v : is_monthly_week(v, k))
        q == Len(monthly) \div WeeksPerMonth
    IN  [days |-> ZipDays(daily,
                          split_into_n_parts(weekly, DaysPerWeek),
                          split_into_n_parts(SubSeq(monthly, k * q + 1, (k + 1) * q),
                                             DaysPerWeek))]

\* variant of VersesForAWeekNew: the monthly verses beyond a multiple of 4
\* are left out
VersesForAWeekNewWholeQuarters(vs, k) ==
    LET daily == SelectSeq(vs, is_daily)
        weekly == SelectSeq(vs, is_weekly)
        monthly == SelectSeq(vs, LAMBDA v : is_monthly_week(v, k))
        q == Len(monthly) \div WeeksPerMonth
    IN  [days |-> ZipDays(daily,
                          split_into_n_parts(weekly, DaysPerWeek),
                          split_into_n_parts(SubSeq(monthly, 1, WeeksPerMonth * q),
                                             DaysPerWeek))]

\* variant of VersesForAWeekNew: the residue is that of the age before the
\* advance by k
VersesForAWeekNewBaseResidue(vs, k) ==
    LET daily == SelectSeq(vs, is_daily)
        weekly == SelectSeq(vs, is_weekly)
        monthly == SelectSeq(vs, LAMBDA v : is_monthly_week(with_offset(v, -k), k)
                                            /\ frequency(v) = "Monthly")
    IN  [days |-> ZipDays(daily,
                          split_into_n_parts(weekly, DaysPerWeek),
                          split_into_n_parts(monthly, DaysPerWeek))]

VersesForAWeekNew(vs, k) ==
    LET daily == SelectSeq(vs, is_daily)
        weekly == SelectSeq(vs, is_weekly)
        monthly == SelectSeq(vs, LAMBDA v : is_monthly_week(v, k))
    IN  [days |-> ZipDays(daily,
                          split_into_n_parts(weekly, DaysPerWeek),
                          split_into_n_parts(monthly, DaysPerWeek))]

\* does one of the two split_into_n_parts calls of VersesForAWeek::new panic
VersesForAWeekPanics(vs, k) ==
    \/ SplitPanics(SelectSeq(vs, is_weekly), DaysPerWeek)
    \/ SplitPanics(SelectSeq(vs, LAMBDA v : is_monthly_week(v, k)), DaysPerWeek)

\* variant of OffsetVerses: the verses are handed over as they are
OffsetVersesNone(vs, k) ==
    vs

\* variant of OffsetVerses: the offsets of the earlier weeks add up
OffsetVersesCumulative(vs, k) ==
    [j \in 1..Len(vs) |-> with_offset(vs[j], (k * (k + 1)) \div 2)]

\* the closure of (0..=3).map(..): the verses handed to VersesForAWeek::new
OffsetVerses(vs, k) ==
    [j \in 1..Len(vs) |-> with_offset(vs[j], k)]

\* variant of VersesForAMonthNew: the weeks are numbered 1..=4
VersesForAMonthNewOneBased(vs) ==
    [weeks |-> [w \in 1..(LastWeek + 1) |->
                   VersesForAWeekNew(OffsetVerses(vs, w), w)]]

\* variant of VersesForAMonthNew: the weeks are (0..3), without the last
VersesForAMonthNewThreeWeeks(vs) ==
    [weeks |-> [w \in 1..LastWeek |->
                   VersesForAWeekNew(OffsetVerses(vs, w - 1), w - 1)]]

VersesForAMonthNew(vs) ==
    [weeks |-> [w \in 1..(LastWeek + 1) |->
                   VersesForAWeekNew(OffsetVerses(vs, w - 1), w - 1)]]

\* does the construction of one of the 4 weeks panic
VersesForAMonthPanics(vs) ==
    \E w \in 0..LastWeek : VersesForAWeekPanics(OffsetVerses(vs, w), w)

----------------------------------------------------------------------------
(* The schedule resolver *)

\* current_week_offset: 0 when the first item's age in weeks is negative,
\* else that age modulo 4; the list is not empty
current_week_offset(l) ==
    LET age == weeks_in(l.references[1], l.today)
    IN  IF age < 0 THEN 0 ELSE RustRem(age, WeeksPerMonth)

\* the weekday of a date, 0 = Sunday .. 6 = Saturday (day 0 is a Sunday)
weekday(day) ==
    day % DaysPerWeek

\* a VersesForADay with three empty lists
EmptyBucket ==
    [daily |-> <<>>, weekly |-> <<>>, monthly |-> <<>>]

\* for_date: are the week offset and the weekday indices of the month built
ForDateInRange(l) ==
    LET m == VersesForAMonthNew(relative_verses(l))
        o == current_week_offset(l)
        d == weekday(l.today)
    IN  /\ o + 1 \in 1..Len(m.weeks)
        /\ d + 1 \in 1..Len(m.weeks[o + 1].days)

\* for_date: weeks[offset].days[weekday] of the month built from the ages
\* relative to the reference date, the empty bucket when out of range
for_date(l) ==
    LET m == VersesForAMonthNew(relative_verses(l))
        o == current_week_offset(l)
        d == weekday(l.today)
    IN  IF ForDateInRange(l) THEN m.weeks[o + 1].days[d + 1] ELSE EmptyBucket

----------------------------------------------------------------------------
(* Values of the variables a specification does not use *)

NoVerse == [weeks_in |-> 0, reference |-> 0]
NoEntry == [date |-> 0, reference |-> 0]
NoList == [today |-> 0, references |-> <<>>]
NoMonth == [weeks |-> <<>>]
NoSplit == SplitEnter(<<>>, 1)

EntryIdle ==
    /\ entry = NoEntry /\ today = 0 /\ verse = NoVerse
    /\ freq = "Unset" /\ added = 0

ListIdle ==
    /\ list = NoList /\ verses = <<>> /\ month = NoMonth /\ offset = 0
    /\ bucket = EmptyBucket

SplitIdle ==
    split = NoSplit

----------------------------------------------------------------------------
(* EntrySpec: one VerseEntry, its Verse and its Frequency *)

EntryDates == {0, 4}

EntryInit ==
    /\ pc = "entry"
    /\ entry \in {[date |-> d, reference |-> 1] : d \in EntryDates}
    /\ today \in (-BeforeDays)..AfterDays
    /\ verse = NoVerse
    /\ freq = "Unset"
    /\ added = 0
    /\ ListIdle /\ SplitIdle

\* VerseEntry::calculate_relative
CalculateRelative ==
    /\ pc = "entry"
    /\ verse' = calculate_relative(entry, today)
    /\ pc' = "verse"
    /\ UNCHANGED <<entry, today, freq, added, list, verses, month, offset, bucket, split>>

\* Verse::frequency
VerseFrequency ==
    /\ pc = "verse"
    /\ freq' = frequency(verse)
    /\ pc' = "frequency"
    /\ UNCHANGED <<entry, today, verse, added, list, verses, month, offset, bucket, split>>

\* Verse::add_offset(1)
AddOffset ==
    /\ pc = "frequency"
    /\ added < MaxAdded
    /\ verse' = [verse EXCEPT !.weeks_in = verse.weeks_in + 1]
    /\ added' = added + 1
    /\ pc' = "verse"
    /\ UNCHANGED <<entry, today, freq, list, verses, month, offset, bucket, split>>

EntryNext ==
    \/ CalculateRelative
    \/ VerseFrequency
    \/ AddOffset

EntrySpec == EntryInit /\ [][EntryNext]_vars

----------------------------------------------------------------------------
(* SplitSpec: split_into_n_parts, one loop iteration per step *)

SplitInit ==
    /\ pc = "loop"
    /\ \E len \in 0..MaxLen, parts \in 1..MaxParts :
           split = SplitEnter([k \in 1..len |-> k], parts)
    /\ EntryIdle /\ ListIdle

SplitIterate ==
    /\ pc = "loop"
    /\ SplitMore(split)
    /\ split' = SplitBody(split)
    /\ UNCHANGED <<pc, entry, today, verse, freq, added, list, verses, month, offset, bucket>>

SplitReturn ==
    /\ pc = "loop"
    /\ ~SplitMore(split)
    /\ pc' = "returned"
    /\ UNCHANGED <<entry, today, verse, freq, added, list, verses, month, offset, bucket, split>>

SplitNext ==
    \/ SplitIterate
    \/ SplitReturn

SplitSpec == SplitInit /\ [][SplitNext]_vars

----------------------------------------------------------------------------
(* Spec: main's pipeline: VerseList, relative_verses, VersesForAMonth::new *)

\* week ages at which a tier begins
Thresholds ==
    {0, DailyWeeks, DailyWeeks + WeeklyWeeks, DailyWeeks + WeeklyWeeks + MonthlyWeeks}

\* reference dates: the weeks around each threshold, every weekday
TodaySet ==
    {7 * (t + k) + r : t \in Thresholds, k \in (-1)..5, r \in 0..6}

\* days between the dates of two entries
StepSet == {-7, 3, 7, 196}

\* len entries whose dates repeat with the given period; references 1..len
References(len, step, period) ==
    [k \in 1..len |-> [date |-> step * ((k - 1) % period), reference |-> k]]

ReferenceLists ==
    {References(len, step, period) :
        len \in 0..MaxVerses, step \in StepSet, period \in {1, 2, MaxVerses + 1}}

Init ==
    /\ pc = "list"
    /\ list \in {[today |-> t, references |-> r] : t \in TodaySet, r \in ReferenceLists}
    /\ verses = <<>>
    /\ month = NoMonth
    /\ offset = 0
    /\ bucket = EmptyBucket
    /\ EntryIdle /\ SplitIdle

\* VerseList::relative_verses
RelativeVerses ==
    /\ pc = "list"
    /\ verses' = relative_verses(list)
    /\ pc' = "verses"
    /\ UNCHANGED <<entry, today, verse, freq, added, list, month, offset, bucket, split>>

\* variant of MonthNew: the offset is added to the caller's verses in place
MonthNewInPlace ==
    /\ pc = "verses"
    /\ pc' = "month"
    /\ month' = VersesForAMonthNew(verses)
    /\ verses' = OffsetVerses(verses, LastWeek)
    /\ UNCHANGED <<entry, today, verse, freq, added, list, offset, bucket, split>>

\* VersesForAMonth::new
MonthNew ==
    /\ pc = "verses"
    /\ IF VersesForAMonthPanics(verses)
       THEN pc' = "panicked" /\ month' = month
       ELSE pc' = "month" /\ month' = VersesForAMonthNew(verses)
    /\ UNCHANGED <<entry, today, verse, freq, added, list, verses, offset, bucket, split>>

\* current_week_offset of a list with a first item
CurrentWeekOffset ==
    /\ pc = "list"
    /\ list.references # <<>>
    /\ offset' = current_week_offset(list)
    /\ pc' = "offset"
    /\ UNCHANGED <<entry, today, verse, freq, added, list, verses, month, bucket, split>>

\* for_date of a list with a first item
ForDate ==
    /\ pc = "list"
    /\ list.references # <<>>
    /\ IF VersesForAMonthPanics(relative_verses(list))
       THEN pc' = "panicked" /\ bucket' = bucket
       ELSE /\ bucket' = for_date(list)
            /\ pc' = IF ForDateInRange(list) THEN "day" ELSE "fallback"
    /\ UNCHANGED <<entry, today, verse, freq, added, list, verses, month, offset, split>>

Next ==
    \/ RelativeVerses
    \/ MonthNew
    \/ CurrentWeekOffset
    \/ ForDate

Spec == Init /\ [][Next]_vars

----------------------------------------------------------------------------
(* Helpers of the properties *)

RECURSIVE Flatten(_)
Flatten(seqs) ==
    IF seqs = <<>> THEN <<>> ELSE Head(seqs) \o Flatten(Tail(seqs))

RECURSIVE SumLen(_)
SumLen(seqs) ==
    IF seqs = <<>> THEN 0 ELSE Len(Head(seqs)) + SumLen(Tail(seqs))

\* the references of a sequence of verses, as a set
Refs(vs) ==
    {vs[k].reference : k \in 1..Len(vs)}

\* how often x occurs in a sequence
Count(x, sq) ==
    Cardinality({k \in 1..Len(sq) : sq[k] = x})

\* the days of the WeekPlan built with offset k (0..3)
Days(k) ==
    month.weeks[k + 1].days

\* the weekly lists of WeekPlan k, day after day
WeeklyOf(k) ==
    Flatten([d \in 1..Len(Days(k)) |-> Days(k)[d].weekly])

\* the monthly lists of WeekPlan k, day after day
MonthlyOf(k) ==
    Flatten([d \in 1..Len(Days(k)) |-> Days(k)[d].monthly])

\* the references of a sequence of verses, in order
RefSeq(vs) ==
    [j \in 1..Len(vs) |-> vs[j].reference]

\* weeks_in of the Monthly tier
MonthlyAge(w) ==
    35 <= w /\ w < 371

\* the input verses that are Monthly now or after advancing by k weeks
NowOrAdvancedCandidates(k) ==
    SelectSeq(verses,
              LAMBDA v : MonthlyAge(v.weeks_in) \/ MonthlyAge(v.weeks_in + k))

\* the input verses that are Monthly after advancing by k weeks, the
\* advanced weeks_in leaving remainder k modulo 4
AdvancedCandidates(k) ==
    SelectSeq(verses,
              LAMBDA v : MonthlyAge(v.weeks_in + k) /\ (v.weeks_in + k) % 4 = k)

\* the input verses that are Weekly after advancing by k weeks
AdvancedWeekly(k) ==
    SelectSeq(verses, LAMBDA v : 7 <= v.weeks_in + k /\ v.weeks_in + k < 35)

\* the input verses that are Daily after advancing by k weeks
AdvancedDaily(k) ==
    SelectSeq(verses, LAMBDA v : 0 <= v.weeks_in + k /\ v.weeks_in + k < 7)

\* the share of day slot d (1..7) of count items
DayShare(count, d) ==
    (count \div 7) + (IF d - 1 < count % 7 THEN 1 ELSE 0)

\* the references found in the monthly lists of any week
AnyMonthlyRefs ==
    UNION {Refs(MonthlyOf(k)) : k \in {k \in 0..LastWeek : k + 1 <= Len(month.weeks)}}

\* the weeks built
Built ==
    {k \in 0..LastWeek : k + 1 <= Len(month.weeks)}

----------------------------------------------------------------------------
(* Properties of EntrySpec *)

\* C1: Frequency::new maps weeks_in < 0 to NotStarted, 0..6 to Daily, 7..34
\* to Weekly, 35..370 to Monthly and every weeks_in >= 371 to Done.
C1_FrequencyTable ==
    pc = "frequency" =>
        LET w == verse.weeks_in
        IN  /\ (w < 0 => freq = "NotStarted")
            /\ (0 <= w /\ w <= 6 => freq = "Daily")
            /\ (7 <= w /\ w <= 34 => freq = "Weekly")
            /\ (35 <= w /\ w <= 370 => freq = "Monthly")
            /\ (w >= 371 => freq = "Done")

\* a verse of 371 weeks has been classified (as Done)
C1_Witness ==
    pc = "frequency" /\ verse.weeks_in = 371 /\ freq = "Done"

\* C2: weeks_in is the floor of the days between the entry's date and the
\* reference date divided by 7, so 1 to 6 days before the date give -1.
C2_FloorWeeks ==
    pc = "verse" /\ added = 0 =>
        verse.weeks_in = (today - entry.date) \div 7

----------------------------------------------------------------------------
(* Properties of SplitSpec *)

\* C3: group i (0-indexed) has len/n + 1 items when i < len mod n and len/n
\* otherwise; the sizes sum to len and differ by at most 1.
C3_GroupSizes ==
    LET len == Len(split.vec)
        size(k) == (len \div split.n) + (IF k - 1 < len % split.n THEN 1 ELSE 0)
        res == split.result
    IN  /\ \A k \in 1..Len(res) : Len(res[k]) = size(k)
        /\ pc = "returned" =>
              /\ SumLen(res) = len
              /\ \A j, k \in 1..Len(res) : Len(res[j]) - Len(res[k]) <= 1

\* a split with a remainder and more items than groups has returned
C3_Witness ==
    /\ pc = "returned"
    /\ Len(split.vec) > split.n
    /\ Len(split.vec) % split.n # 0
    /\ \E j, k \in 1..Len(split.result) :
           Len(split.result[j]) # Len(split.result[k])

\* C4: the groups concatenated in order are the input: nothing is skipped,
\* duplicated or reordered.
C4_ConcatIsInput ==
    pc = "returned" => Flatten(split.result) = split.vec

\* a split of at least 5 items into 2..4 uneven groups has returned
C4_Witness ==
    /\ pc = "returned"
    /\ split.n \in 2..4
    /\ Len(split.vec) >= 5
    /\ split.remainder # 0
    /\ Len(split.result) = split.n

\* C5: exactly n groups are returned; when len < n the groups after the
\* first len are present and empty.
C5_AlwaysNGroups ==
    pc = "returned" =>
        /\ Len(split.result) = split.n
        /\ \A k \in 1..Len(split.result) :
              k > Len(split.vec) => split.result[k] = <<>>

\* the empty vector split into 7 parts has returned 7 empty groups
C5_Witness ==
    /\ pc = "returned"
    /\ split.vec = <<>>
    /\ split.n = 7
    /\ split.result = [k \in 1..7 |-> <<>>]

----------------------------------------------------------------------------
(* Properties of Spec *)

\* C6: within one WeekPlan the daily list is the same (items and order) in
\* all 7 days, and it holds every verse that is Daily in that week, whole.
C6_DailyShared ==
    pc = "month" =>
        \A k \in Built :
            /\ \A d \in 1..Len(Days(k)) : Days(k)[d].daily = Days(k)[1].daily
            /\ \A d \in 1..Len(Days(k)) : \A j \in 1..Len(verses) :
                  is_daily(with_offset(verses[j], k)) =>
                      Count(with_offset(verses[j], k), Days(k)[d].daily) = 1

\* a week of 7 days whose daily list holds at least 2 verses
C6_Witness ==
    /\ pc = "month"
    /\ \E k \in Built :
          /\ Len(Days(k)) = 7
          /\ Len(Days(k)[7].daily) >= 2
          /\ Days(k)[7].daily = Days(k)[1].daily

\* C7 as stated: in every cycle-week the daily list is exactly the verses
\* whose current (un-advanced) tier is Daily, the same in all four weeks.
C7_DailyCurrentTier ==
    pc = "month" =>
        \A k \in Built : \A d \in 1..Len(Days(k)) :
            /\ Refs(Days(k)[d].daily) =
                  {verses[j].reference : j \in
                      {j \in 1..Len(verses) :
                          0 <= verses[j].weeks_in /\ verses[j].weeks_in < 7}}
            /\ Refs(Days(k)[d].daily) = Refs(Days(0)[1].daily)

\* C7 amended: in cycle-week n the daily list is exactly the verses whose
\* tier after advancing weeks_in by n is Daily (0 <= weeks_in + n < 7).
C7_DailyAdvancedTier ==
    pc = "month" =>
        \A k \in Built : \A d \in 1..Len(Days(k)) :
            /\ Refs(Days(k)[d].daily) =
                  {verses[j].reference : j \in
                      {j \in 1..Len(verses) :
                          0 <= verses[j].weeks_in + k /\ verses[j].weeks_in + k < 7}}
            /\ Len(Days(k)[d].daily) = Cardinality(Refs(Days(k)[d].daily))

\* a verse of 6 weeks is in the daily list of week 0 and not of week 1, and
\* a verse of -1 weeks is in the daily list of week 1 and not of week 0
C7_Witness ==
    /\ pc = "month"
    /\ \E j, l \in 1..Len(verses) :
          /\ verses[j].weeks_in = 6
          /\ verses[j].reference \in Refs(Days(0)[1].daily)
          /\ verses[j].reference \notin Refs(Days(1)[1].daily)
          /\ verses[l].weeks_in = -1
          /\ verses[l].reference \in Refs(Days(1)[1].daily)
          /\ verses[l].reference \notin Refs(Days(0)[1].daily)

\* C8: the weekly set of cycle-week n is exactly the verses with
\* 7 <= weeks_in + n < 35.
C8_WeeklySetAdvanced ==
    pc = "month" =>
        \A k \in Built :
            Refs(WeeklyOf(k)) =
                {verses[j].reference : j \in
                    {j \in 1..Len(verses) :
                        7 <= verses[j].weeks_in + k /\ verses[j].weeks_in + k < 35}}

\* a verse of 6 weeks is weekly in week 1 only after the advance, and a verse
\* of 34 weeks is weekly in week 0 and no longer in week 1
C8_Witness ==
    /\ pc = "month"
    /\ \E j, l \in 1..Len(verses) :
          /\ verses[j].weeks_in = 6
          /\ verses[j].reference \in Refs(WeeklyOf(1)) \ Refs(WeeklyOf(0))
          /\ verses[l].weeks_in = 34
          /\ verses[l].reference \in Refs(WeeklyOf(0)) \ Refs(WeeklyOf(1))

\* C9: in every WeekPlan the weekly lists of the 7 days together hold each
\* verse of that week's weekly set exactly once and nothing else.
C9_WeeklyUnion ==
    pc = "month" =>
        \A k \in Built :
            LET weekly == SelectSeq(OffsetVerses(verses, k), is_weekly)
            IN  /\ Len(WeeklyOf(k)) = Len(weekly)
                /\ \A j \in 1..Len(weekly) :
                      Count(weekly[j], WeeklyOf(k)) = Count(weekly[j], weekly)

\* a week with 9 weekly verses: two on each of the first two days, one on
\* each of the others
C9_Witness ==
    /\ pc = "month"
    /\ \E k \in Built :
          /\ Len(WeeklyOf(k)) = 9
          /\ Len(Days(k)[1].weekly) = 2
          /\ Len(Days(k)[2].weekly) = 2
          /\ Len(Days(k)[7].weekly) = 1

C12_PoolsDisjoint ==
    pc = "month" =>
        \A k, l \in Built :
            k # l => Refs(MonthlyOf(k)) \cap Refs(MonthlyOf(l)) = {}

\* C13 as stated: the candidates at positions >= 4 * floor(count/4) are in
\* no monthly list of any week, and every earlier candidate is in some.
C13_RemainderDropped ==
    pc = "month" =>
        \A k \in Built :
            LET c == RefSeq(NowOrAdvancedCandidates(k))
                q == Len(c) \div 4
            IN  \A p \in 1..Len(c) :
                    IF p > 4 * q THEN c[p] \notin AnyMonthlyRefs
                    ELSE c[p] \in AnyMonthlyRefs

\* C13 amended: no candidate is dropped; whatever count mod 4 is, every
\* monthly candidate of cycle-week n, at any position of the candidate
\* sequence, is exactly once in the monthly lists of WeekPlan n.
C13_NoCandidateDropped ==
    pc = "month" =>
        \A k \in Built :
            LET c == RefSeq(AdvancedCandidates(k))
            IN  \A p \in 1..Len(c) : Count(c[p], RefSeq(MonthlyOf(k))) = 1

\* 5 candidates in week 0: the fifth, beyond 4 * floor(5/4), is in the
\* monthly lists of week 0
C13_Witness ==
    /\ pc = "month"
    /\ Len(AdvancedCandidates(0)) = 5
    /\ AdvancedCandidates(0)[5].reference \in Refs(MonthlyOf(0))

\* C14: of the count verses of a week's weekly set, and of its monthly
\* pool, day slot d (0..6) gets floor(count/7) + 1 when d < count mod 7 and
\* floor(count/7) otherwise.
C14_DayShares ==
    pc = "month" =>
        \A k \in Built :
            /\ Len(Days(k)) = 7
            /\ \A d \in 1..7 :
                  /\ Len(Days(k)[d].weekly) = DayShare(Len(AdvancedWeekly(k)), d)
                  /\ Len(Days(k)[d].monthly) = DayShare(Len(AdvancedCandidates(k)), d)

\* a week whose 9 weekly verses fall 2, 2, 1, .., 1 on the days, in a month
\* with a week whose monthly pool falls on the first days only
C14_Witness ==
    /\ pc = "month"
    /\ \E k \in Built :
          /\ Len(WeeklyOf(k)) = 9
          /\ Len(Days(k)[2].weekly) = 2
          /\ Len(Days(k)[3].weekly) = 1
    /\ \E k \in Built :
          /\ Len(Days(k)[1].monthly) = 1
          /\ Len(Days(k)[7].monthly) = 0

\* C15: in every WeekPlan the weekly lists of days 0..6, one after the
\* other, are the week's weekly set in input order; so are the monthly lists
\* and the monthly pool; the daily list keeps input order.
C15_InputOrderKept ==
    pc = "month" =>
        \A k \in Built :
            /\ RefSeq(WeeklyOf(k)) = RefSeq(AdvancedWeekly(k))
            /\ RefSeq(MonthlyOf(k)) = RefSeq(AdvancedCandidates(k))
            /\ \A d \in 1..Len(Days(k)) :
                  RefSeq(Days(k)[d].daily) = RefSeq(AdvancedDaily(k))

\* a week in which a daily verse stands between two weekly verses in the
\* input, the two weekly verses falling on different days in input order
C15_Witness ==
    /\ pc = "month"
    /\ \E k \in Built : \E j, m, l \in 1..Len(verses) :
          /\ j < m /\ m < l
          /\ verses[m].reference \in Refs(Days(k)[1].daily)
          /\ Days(k)[1].weekly = <<with_offset(verses[j], k)>>
          /\ Days(k)[2].weekly = <<with_offset(verses[l], k)>>

\* C16: VersesForAMonth::new returns exactly 4 WeekPlans of exactly 7
\* DayBuckets each; the WeekPlan at index n is the one built with offset n.
C16_FourWeeksOfSevenDays ==
    pc = "month" =>
        /\ Len(month.weeks) = 4
        /\ \A k \in 0..3 :
              /\ Len(Days(k)) = 7
              /\ month.weeks[k + 1] = VersesForAWeekNew(OffsetVerses(verses, k), k)

\* a month of 4 weeks of 7 days whose first two weeks differ
C16_Witness ==
    /\ pc = "month"
    /\ verses # <<>>
    /\ Len(month.weeks) = 4
    /\ \A k \in 0..3 : Len(Days(k)) = 7
    /\ month.weeks[1] # month.weeks[2]

\* C17: for an empty list, or a list with no verse in some tier, the plan
\* still has 4 weeks of 7 DayBuckets and the lists of that tier are empty
\* sequences.
C17_EmptyTiersGiveEmptyLists ==
    pc = "month" =>
        /\ Len(month.weeks) = 4
        /\ \A k \in 0..3 :
              /\ Len(Days(k)) = 7
              /\ \A d \in 1..7 :
                    /\ AdvancedDaily(k) = <<>> => Days(k)[d].daily = <<>>
                    /\ AdvancedWeekly(k) = <<>> => Days(k)[d].weekly = <<>>
                    /\ AdvancedCandidates(k) = <<>> => Days(k)[d].monthly = <<>>

\* the plan of the empty list: 28 DayBuckets of three empty lists
C17_Witness ==
    /\ pc = "month"
    /\ verses = <<>>
    /\ Len(month.weeks) = 4
    /\ \A k \in 0..3 :
          /\ Len(Days(k)) = 7
          /\ \A d \in 1..7 :
                Days(k)[d] = [daily |-> <<>>, weekly |-> <<>>, monthly |-> <<>>]

\* C18: building a MonthPlan never fails: no split_into_n_parts call
\* divides by n = 0 and no slice is out of range.
C18_MonthNeverPanics ==
    /\ pc # "panicked"
    /\ pc = "verses" => ~VersesForAMonthPanics(verses)

\* a month was built in which one week has at least 7 weekly verses and a
\* monthly verse to split
C18_Witness ==
    /\ pc = "month"
    /\ \E k \in Built : Len(WeeklyOf(k)) >= 7 /\ Len(MonthlyOf(k)) >= 1

\* C19: VersesForAMonth::new leaves the caller's verses as they were:
\* same weeks_in, same reference, same order.
C19_InputUnchanged ==
    [][pc = "verses" => verses' = verses]_vars

\* a month was built from at least 2 verses: week 3 holds a verse advanced
\* by 3 weeks and the caller's verses are still those of relative_verses
C19_Witness ==
    /\ pc = "month"
    /\ Len(verses) >= 2
    /\ verses = relative_verses(list)
    /\ \E j \in 1..Len(verses) :
          Count(with_offset(verses[j], 3), Days(3)[1].daily) = 1

\* C20: current_week_offset is in 0..3; it is 0 when the reference date is
\* before the first item's date, and the first item's age in weeks modulo 4
\* otherwise.
C20_OffsetInRange ==
    pc = "offset" =>
        LET days == list.today - list.references[1].date
        IN  /\ offset \in 0..3
            /\ days < 0 => offset = 0
            /\ days >= 0 => offset = (days \div 7) % 4

\* the offset of a list whose first item is 371 weeks old is 3
C20_Witness ==
    /\ pc = "offset"
    /\ list.today - list.references[1].date = 7 * 371
    /\ offset = 3

\* C21: for_date returns the VersesForADay at weeks[offset].days[weekday] of
\* the month built from the ages relative to the reference date, the offset
\* being that of current_week_offset and the weekday 0 = Sunday .. 6 =
\* Saturday; the empty-bucket fallback is never taken.
C21_ForDateSelectsDay ==
    /\ pc # "fallback"
    /\ pc = "day" =>
          LET vs == relative_verses(list)
              days == list.today - list.references[1].date
              o == IF days < 0 THEN 0 ELSE (days \div 7) % 4
              d == list.today % 7
              daily == SelectSeq(vs, LAMBDA v : 0 <= v.weeks_in + o /\ v.weeks_in + o < 7)
              weekly == SelectSeq(vs, LAMBDA v : 7 <= v.weeks_in + o /\ v.weeks_in + o < 35)
          IN  /\ bucket = VersesForAMonthNew(vs).weeks[o + 1].days[d + 1]
              /\ RefSeq(bucket.daily) = RefSeq(daily)
              /\ Len(bucket.weekly) = DayShare(Len(weekly), d + 1)

\* for_date has answered for a Saturday in cycle-week 3 with a weekly verse
C21_Witness ==
    /\ pc = "day"
    /\ list.today % 7 = 6
    /\ ((list.today - list.references[1].date) \div 7) % 4 = 3
    /\ list.today >= list.references[1].date
    /\ bucket.weekly # <<>>

\* the list of the test `idk`: A (reference 1) introduced on the reference
\* date, a Sunday, and B (reference 2) a week later
ScenarioList ==
    [today |-> 0,
     references |-> <<[date |-> 0, reference |-> 1], [date |-> 7, reference |-> 2]>>]

C23_MonthlyOnceInFourWeeks ==
    pc = "month" =>
        \A j \in 1..Len(verses) :
            35 <= verses[j].weeks_in /\ verses[j].weeks_in + 3 < 371 =>
                \E k \in Built : \E d \in 1..Len(Days(k)) :
                    verses[j].reference \in Refs(Days(k)[d].monthly)

\* C24: with n >= 1, at every iteration of split_into_n_parts
\* 0 <= start <= end <= len, so vec[start..end] is in bounds, and after the
\* last iteration start = len.
C24_SliceInBounds ==
    /\ pc = "loop" /\ SplitMore(split) =>
          /\ 0 <= split.start
          /\ split.start <= SplitEnd(split)
          /\ SplitEnd(split) <= split.len
    /\ ~SplitMore(split) => split.start = split.len

\* 9 items in 7 parts: the third iteration is about to slice vec[4..5]
C24_Witness ==
    /\ pc = "loop"
    /\ split.len = 9 /\ split.n = 7
    /\ split.i = 2 /\ split.start = 4
    /\ SplitEnd(split) = 5

\* the position of a tier in NotStarted, Daily, Weekly, Monthly, Done
TierRank(f) ==
    CASE f = "NotStarted" -> 0
      [] f = "Daily" -> 1
      [] f = "Weekly" -> 2
      [] f = "Monthly" -> 3
      [] f = "Done" -> 4

\* C25: as weeks_in advances one week at a time, the tier stays or moves to
\* the next of NotStarted, Daily, Weekly, Monthly, Done: it never moves
\* back, skips no tier, and Done stays Done.
C25_TierMovesForward ==
    [][pc = "verse" /\ added > 0 =>
          /\ TierRank(freq') - TierRank(freq) \in {0, 1}
          /\ freq = "Done" => freq' = "Done"]_vars

\* a verse advanced from 6 to 7 weeks has been classified again, as Weekly
C25_Witness ==
    /\ pc = "frequency"
    /\ added = 1
    /\ verse.weeks_in = 7
    /\ freq = "Weekly"

\* the daily lists of WeekPlan k, day after day
DailyOf(k) ==
    Flatten([d \in 1..Len(Days(k)) |-> Days(k)[d].daily])

\* C26: within one WeekPlan the daily, weekly and monthly sets are pairwise
\* disjoint: no input verse is in lists of two cadences of the same week.
C26_CadencesDisjoint ==
    pc = "month" =>
        \A k \in Built :
            /\ Refs(DailyOf(k)) \cap Refs(WeeklyOf(k)) = {}
            /\ Refs(DailyOf(k)) \cap Refs(MonthlyOf(k)) = {}
            /\ Refs(WeeklyOf(k)) \cap Refs(MonthlyOf(k)) = {}

\* a week holds both weekly and monthly verses
C26_Witness ==
    /\ pc = "month"
    /\ \E k \in Built : WeeklyOf(k) # <<>> /\ MonthlyOf(k) # <<>>

\* C27: in cycle-week n a verse whose advanced age is negative (NotStarted)
\* or at least 371 (Done) is in no daily, weekly or monthly list.
C27_NotStartedAndDoneLeftOut ==
    pc = "month" =>
        \A k \in Built : \A j \in 1..Len(verses) :
            verses[j].weeks_in + k < 0 \/ verses[j].weeks_in + k >= 371 =>
                verses[j].reference \notin
                    Refs(DailyOf(k)) \cup Refs(WeeklyOf(k)) \cup Refs(MonthlyOf(k))

\* a month was built from a verse that is Done and one that is scheduled as
\* monthly
C27_Witness ==
    /\ pc = "month"
    /\ \E j, l \in 1..Len(verses) :
          /\ verses[j].weeks_in >= 371
          /\ verses[l].reference \in Refs(MonthlyOf(0))

C29_ListsHoldAdvancedInputs ==
    pc = "month" =>
        \A k \in Built :
            LET all == DailyOf(k) \o WeeklyOf(k) \o MonthlyOf(k)
            IN  \A i \in 1..Len(all) : \E j \in 1..Len(verses) :
                    /\ all[i].reference = verses[j].reference
                    /\ all[i].weeks_in = verses[j].weeks_in + k

\* a weekly verse is in week 0 with its own age and in week 2 with its age
\* plus 2
C29_Witness ==
    /\ pc = "month"
    /\ \E j \in 1..Len(verses) :
          /\ Count(verses[j], WeeklyOf(0)) = 1
          /\ Count(with_offset(verses[j], 2), WeeklyOf(2)) = 1

====
